---- MODULE Spec2Model ----
(***************************************************************************)
(* GreenVulcano Communication Library (gv): the Transport / Protocol /      *)
(* GVComm layer of src/src/gv.                                              *)
(*                                                                          *)
(* One transport object, one protocol object and one facade are modelled.   *)
(* Every public operation is one action; what the operation did (the        *)
(* driver hooks it called, the notifications it delivered, the callbacks it *)
(* invoked, the value or error it handed back) is recorded in the           *)
(* observation variables call / events / result / returned, which are       *)
(* overwritten by every operation.                                          *)
(***************************************************************************)
EXTENDS Integers, Sequences, FiniteSets, TLC

(***************************************************************************)
(* Bounds of the model.                                                     *)
(***************************************************************************)
NumListeners == 2
NumCallbacks == 2
MaxRepeat    == 2

None == "None"
OK   == "ok"

Listeners   == {"L" \o ToString(i) : i \in 1..NumListeners}
CallbackIds == 1..NumCallbacks
ActuatorIds == {"a1"}
SensorIds   == {"s1"}
Payloads    == {"X"}
Statuses    == {"true", "DEMO"}
QosValues   == {0, 1, 2}
Readings    == {"21"}

\* The transport classes: a driver that implements every hook of Transport
\* itself ("base"), RestTransport and MqttTransport.  RestTransport and
\* MqttTransport leave _handle_connect and _handle_shutdown abstract, so the
\* objects modelled for them are those of a subclass supplying the two hooks.
Kinds == {"base", "rest", "mqtt"}

\* TransportException.ERRORS["NOT_IMPLEMENTED"]: the error with code -1
NOT_IMPLEMENTED == "TransportException(-1, The requested method is not implemented)"

\* Errors raised by the drivers' own mechanics.
ConnectErrors == {"ConnectionRefused", "Timeout"}
SubscribeError == "SubscriptionFailure"
SendError == "SendFailure"

(***************************************************************************)
(* DeviceInfo and the topic template table of GVProtocol_v1.                *)
(***************************************************************************)
DeviceInfo == [id |-> "dev1", name |-> "n", ip |-> "10.0.0.5", port |-> 1000]

\* SERVICES[key] % {'device_id': dev, 'sensor_id'/'actuator_id': sub}
SERVICES(key, dev, sub) ==
    CASE key = "devices"         -> "/devices/" \o dev
      [] key = "devices_input"   -> "/devices/" \o dev \o "/input"
      [] key = "sensors"         -> "/devices/" \o dev \o "/sensors/" \o sub
      [] key = "actuators"       -> "/devices/" \o dev \o "/actuators/" \o sub
      [] key = "actuators_input" -> "/devices/" \o dev \o "/actuators/" \o sub \o "/input"
      [] key = "data"            -> "/devices/" \o dev \o "/sensors/" \o sub \o "/output"
      [] key = "status"          -> "/devices/" \o dev \o "/status"

\* Topics on which subscriptions are requested and data is delivered.
InboxTopics ==
    {SERVICES("devices_input", DeviceInfo.id, None)}
        \cup {SERVICES("actuators_input", DeviceInfo.id, a) : a \in ActuatorIds}
DeliveryTopics == InboxTopics \cup {SERVICES("status", DeviceInfo.id, None)}

(***************************************************************************)
(* Callbacks.  A callback takes the payload and returns the payload for the *)
(* next stage; callback i appends its own letter.                           *)
(***************************************************************************)
Letters == <<"A", "B", "C", "D">>
Callbacks == {"c" \o ToString(i) : i \in CallbackIds}
CallbackIndex(c) == CHOOSE i \in CallbackIds : c = "c" \o ToString(i)
Apply(c, payload) == payload \o Letters[((CallbackIndex(c) - 1) % Len(Letters)) + 1]

(***************************************************************************)
(* Python sets.  A registry set is kept as the number of times each element *)
(* is held, so that "held once" is a property of the operations and not of  *)
(* the representation: set() holds nothing, set.add makes the count 1,      *)
(* set.remove makes it 0, and iteration visits an element once per count.   *)
(***************************************************************************)
EmptySet(U) == [x \in U |-> 0]
Elems(S) == {x \in DOMAIN S : S[x] > 0}

RECURSIVE SumOver(_, _)
SumOver(S, D) ==
    IF D = {} THEN 0
    ELSE LET x == CHOOSE y \in D : TRUE IN S[x] + SumOver(S, D \ {x})
Size(S) == SumOver(S, DOMAIN S)

\* Variant: the element is appended as to a list, once per call.
SetAdd_Append(S, x) == [S EXCEPT ![x] = @ + 1]

\* set.add(x)
SetAdd(S, x) == [S EXCEPT ![x] = 1]

\* set.remove(x), for x held
SetRemove(S, x) == [S EXCEPT ![x] = 0]

\* All orders in which `for x in S` can visit S.
Orders(S) ==
    {s \in [1..Size(S) -> Elems(S)] :
        \A x \in Elems(S) : Cardinality({i \in 1..Size(S) : s[i] = x}) = S[x]}

VARIABLES
    kind,        \* class of the transport object
    callbacks,   \* Transport.__callbacks : topic -> set of callbacks
    listeners,   \* Transport.__listeners : set of listeners
    link,        \* history: what the driver's connection mechanics did last: "new" (never
                 \* asked to connect), "connected", "failed" or "down" (torn down)
    raising,     \* listeners whose class overrides the TransportListener methods with
                 \* code that raises, and callbacks that raise when invoked
    lastSub,     \* history: <<topic, callback, n>>, the registration of the last call of
                 \* Transport.subscribe by the application that returned, and how many
                 \* such calls in a row returned for it
    addCount,    \* history: add_listener calls per listener since its removal
    actuated,    \* history: <<actuator id, callback>> of the add_actuator calls whose send was delivered
    call,        \* the operation executed last, with its arguments
    events,      \* what that operation did, in order
    result,      \* "ok", or the error that reached the caller
    returned     \* the value handed back to the caller

vars == <<kind, callbacks, listeners, link, raising, lastSub, addCount, actuated,
          call, events, result, returned>>

(***************************************************************************)
(* Helpers.                                                                 *)
(***************************************************************************)
Min(S) == CHOOSE x \in S : \A y \in S : x <= y

\* __EMPTY_SET = set()
EMPTY_SET == EmptySet(Callbacks)

\* Variant: the lookup inserts an empty set for a missing topic (setdefault).
Lookup_Inserting(cbs, topic) ==
    [set |-> IF topic \in DOMAIN cbs /\ Elems(cbs[topic]) # {} THEN cbs[topic] ELSE EMPTY_SET,
     cbs |-> [t \in DOMAIN cbs \cup {topic} |->
                IF t \in DOMAIN cbs THEN cbs[t] ELSE EMPTY_SET]]

\* self.__callbacks.get(topic) or self.__EMPTY_SET: the set to iterate, and
\* the dict afterwards (dict.get inserts nothing)
Lookup(cbs, topic) ==
    [set |-> IF topic \in DOMAIN cbs /\ Elems(cbs[topic]) # {} THEN cbs[topic] ELSE EMPTY_SET,
     cbs |-> cbs]

\* Variant: the optional arguments are passed by position in the wrong order.
Info_Positional(topic, failure_reason) ==
    [transport |-> "self", topic |-> failure_reason, failure_reason |-> topic]

\* TransportListener.Info(transport, topic, failure_reason)
Info(topic, failure_reason) ==
    [transport |-> "self", topic |-> topic, failure_reason |-> failure_reason]

\* Variant: the method is looked up on the listener (lst.<method>(info)), so
\* that the override of the listener's class runs; one that raises ends the
\* loop and the error propagates.
_invoke_listeners_Bound(order, listener_method, info) ==
    LET bad == {i \in 1..Len(order) : order[i] \in raising}
        n   == IF bad = {} THEN Len(order) ELSE Min(bad)
    IN  [ev  |-> [i \in 1..n |-> <<"notify", listener_method, order[i], info>>],
         err |-> IF bad = {} THEN None ELSE "ListenerError"]

\* for lst in self.__listeners: listener_method(lst, info)
\* order is the iteration order of the listener set.  listener_method is the
\* function TransportListener.<method> itself, called with lst as its first
\* argument: the body that runs is TransportListener's own (pass), whatever
\* the class of lst defines under that name.  So every listener of the set is
\* called, and no call raises.
_invoke_listeners(order, listener_method, info) ==
    [ev  |-> [i \in 1..Len(order) |-> <<"notify", listener_method, order[i], info>>],
     err |-> None]

(***************************************************************************)
(* Driver hooks of the three transport classes.  drv is the outcome of the  *)
(* underlying mechanics: None, or the error it raises.                      *)
(***************************************************************************)
\* _handle_connect: not defined by RestTransport or MqttTransport; supplied by
\* the instantiable subclass.  Raises on failure (driver contract).
_handle_connect(drv) ==
    [ev |-> << <<"driver", "_handle_connect", None, drv>> >>, err |-> drv]

\* _handle_shutdown: the teardown mechanics.
_handle_shutdown ==
    [ev |-> << <<"driver", "teardown", None, None>> >>, err |-> None]

\* Transport._handle_subscription is declared with abc.abstractclassmethod:
\* RestTransport's call Transport._handle_subscription(self, topic, callback)
\* binds the class as first argument and fails with TypeError before the body
\* (which would raise TransportException) is entered.
Rest_handle_subscription(topic, drv) ==
    [ev |-> << <<"driver", "_handle_subscription", topic, "TypeError">> >>, err |-> "TypeError"]

\* MqttTransport._handle_subscription: self.__client.subscribe(topic)
Mqtt_handle_subscription(topic, drv) ==
    [ev |-> << <<"driver", "_handle_subscription", topic, drv>> >>, err |-> drv]

\* A driver implementing the hook itself.
Base_handle_subscription(topic, drv) ==
    [ev |-> << <<"driver", "_handle_subscription", topic, drv>> >>, err |-> drv]

_handle_subscription(topic, drv) ==
    CASE kind = "rest" -> Rest_handle_subscription(topic, drv)
      [] kind = "mqtt" -> Mqtt_handle_subscription(topic, drv)
      [] OTHER         -> Base_handle_subscription(topic, drv)

\* RestTransport.send(self, service, payload): two positional parameters only.
Rest_send(args, drv) ==
    IF Len(args) # 2
    THEN [ev |-> <<>>, err |-> "TypeError"]
    ELSE [ev |-> << <<"send", args[1], args[2], drv>> >>, err |-> drv]

\* send(self, service, payload, qos=0, retain=False) of MqttTransport and of
\* the Transport interface.
Mqtt_send(args, drv) ==
    IF Len(args) < 2 \/ Len(args) > 4
    THEN [ev |-> <<>>, err |-> "TypeError"]
    ELSE LET qos    == IF Len(args) >= 3 THEN args[3] ELSE 0
             retain == IF Len(args) >= 4 THEN args[4] ELSE FALSE
         IN  [ev |-> << <<"send", args[1], args[2], qos, retain, drv>> >>, err |-> drv]

send(args, drv) ==
    IF kind = "rest" THEN Rest_send(args, drv) ELSE Mqtt_send(args, drv)

(***************************************************************************)
(* Transport: the public operations.  Each operator gives what one call     *)
(* does: cbs the registry afterwards (where it can change), ev the events   *)
(* in order, err the error that leaves the call (None when it returns).     *)
(***************************************************************************)
\* Variant: no try/except around the driver's connect-mechanics.
Transport_connect_NoCatch(drv, order) ==
    LET h   == _handle_connect(drv)
        okN == _invoke_listeners(order, "_after_connect", Info(None, None))
    IN  IF h.err # None
        THEN [ev |-> h.ev, err |-> h.err]
        ELSE [ev |-> h.ev \o okN.ev, err |-> okN.err]

\* Transport.connect
Transport_connect(drv, order) ==
    LET h    == _handle_connect(drv)
        okN  == _invoke_listeners(order, "_after_connect", Info(None, None))
        \* the exception caught by `except Exception as exc`
        exc  == IF h.err # None THEN h.err ELSE okN.err
        tried == IF h.err # None THEN h.ev ELSE h.ev \o okN.ev
        badN == _invoke_listeners(order, "_after_connection_unsuccessful", Info(None, exc))
    IN  IF exc = None
        THEN [ev |-> tried, err |-> None]
        ELSE [ev |-> tried \o badN.ev, err |-> badN.err]

\* if topic not in self.__callbacks: self.__callbacks[topic] = set()
\* self.__callbacks[topic].add(callback)
RegistryAdd(cbs, topic, callback) ==
    [t \in DOMAIN cbs \cup {topic} |->
        IF t = topic
        THEN SetAdd(IF t \in DOMAIN cbs THEN cbs[t] ELSE EmptySet(Callbacks), callback)
        ELSE cbs[t]]

\* Variant: the callback is registered only after the driver's subscription
\* mechanics has succeeded.
Transport_subscribe_RegisterAfter(topic, callback, drv, order) ==
    LET cbs1 == RegistryAdd(callbacks, topic, callback)
        h    == _handle_subscription(topic, drv)
        n    == _invoke_listeners(order, "_after_subscribe", Info(topic, None))
    IN  IF h.err # None
        THEN [cbs |-> callbacks, ev |-> h.ev, err |-> h.err]
        ELSE [cbs |-> cbs1, ev |-> h.ev \o n.ev, err |-> n.err]

\* Variant: the registration is undone when the driver's subscription
\* mechanics fails.
Transport_subscribe_RollBack(topic, callback, drv, order) ==
    LET cbs1 == RegistryAdd(callbacks, topic, callback)
        h    == _handle_subscription(topic, drv)
        n    == _invoke_listeners(order, "_after_subscribe", Info(topic, None))
    IN  IF h.err # None
        THEN [cbs |-> [cbs1 EXCEPT ![topic] = SetRemove(@, callback)], ev |-> h.ev, err |-> h.err]
        ELSE [cbs |-> cbs1, ev |-> h.ev \o n.ev, err |-> n.err]

\* Variant: the listeners are notified before the driver's subscription
\* mechanics is invoked.
Transport_subscribe_NotifyFirst(topic, callback, drv, order) ==
    LET cbs1 == RegistryAdd(callbacks, topic, callback)
        h    == _handle_subscription(topic, drv)
        n    == _invoke_listeners(order, "_after_subscribe", Info(topic, None))
    IN  IF n.err # None
        THEN [cbs |-> cbs1, ev |-> n.ev, err |-> n.err]
        ELSE [cbs |-> cbs1, ev |-> n.ev \o h.ev, err |-> h.err]

\* Transport.subscribe
Transport_subscribe(topic, callback, drv, order) ==
    LET cbs1 == RegistryAdd(callbacks, topic, callback)
        h    == _handle_subscription(topic, drv)
        n    == _invoke_listeners(order, "_after_subscribe", Info(topic, None))
    IN  IF h.err # None
        THEN [cbs |-> cbs1, ev |-> h.ev, err |-> h.err]
        ELSE [cbs |-> cbs1, ev |-> h.ev \o n.ev, err |-> n.err]

\* Variant: the teardown is invoked only when a connection was established.
Transport_shutdown_IfConnected(order) ==
    LET n == _invoke_listeners(order, "_before_disconnect", Info(None, None))
    IN  IF n.err # None
        THEN [ev |-> n.ev, err |-> n.err]
        ELSE IF link = "connected"
        THEN [ev |-> n.ev \o _handle_shutdown.ev, err |-> None]
        ELSE [ev |-> n.ev, err |-> None]

\* Transport.shutdown (also RestTransport.shutdown, which only delegates to it)
Transport_shutdown(order) ==
    LET n == _invoke_listeners(order, "_before_disconnect", Info(None, None))
    IN  IF n.err # None
        THEN [ev |-> n.ev, err |-> n.err]
        ELSE [ev |-> n.ev \o _handle_shutdown.ev, err |-> None]

\* MqttTransport.shutdown: self.__client.disconnect()
Mqtt_shutdown(order) ==
    [ev |-> << <<"driver", "teardown", None, None>> >>, err |-> None]

shutdown(order) ==
    IF kind = "mqtt" THEN Mqtt_shutdown(order) ELSE Transport_shutdown(order)

\* The payload after the first n stages of the pipeline.
RECURSIVE Feed(_, _, _)
Feed(order, n, payload) ==
    IF n = 0 THEN payload ELSE Apply(order[n], Feed(order, n - 1, payload))

\* Variant: every callback is given the delivered payload (fan-out).
Pipeline_FanOut(order, payload) ==
    LET bad == {i \in 1..Len(order) : order[i] \in raising}
        n   == IF bad = {} THEN Len(order) ELSE Min(bad)
    IN  [ev  |-> [i \in 1..n |->
                    <<"cb", order[i], payload,
                      IF i \in bad THEN "raise" ELSE Apply(order[i], payload)>>],
         err |-> IF bad = {} THEN None ELSE "CallbackError"]

\* Variant: an exception of a callback is caught and the loop goes on with
\* the payload it had.
RECURSIVE Feed_Catching(_, _, _)
Feed_Catching(order, n, payload) ==
    IF n = 0 THEN payload
    ELSE IF order[n] \in raising THEN Feed_Catching(order, n - 1, payload)
         ELSE Apply(order[n], Feed_Catching(order, n - 1, payload))

Pipeline_Catching(order, payload) ==
    [ev  |-> [i \in 1..Len(order) |->
                <<"cb", order[i], Feed_Catching(order, i - 1, payload),
                  IF order[i] \in raising THEN "raise"
                  ELSE Feed_Catching(order, i, payload)>>],
     err |-> None]

\* for cb in s: payload = cb(payload)
Pipeline(order, payload) ==
    LET bad == {i \in 1..Len(order) : order[i] \in raising}
        n   == IF bad = {} THEN Len(order) ELSE Min(bad)
    IN  [ev  |-> [i \in 1..n |->
                    <<"cb", order[i], Feed(order, i - 1, payload),
                      IF i \in bad THEN "raise" ELSE Feed(order, i, payload)>>],
         err |-> IF bad = {} THEN None ELSE "CallbackError"]

\* Variant: the callbacks of a topic are dropped once they have been invoked.
Transport_callback_Consuming(topic, payload, order) ==
    LET p == Pipeline(order, payload)
    IN  [cbs |-> [t \in DOMAIN callbacks \ {topic} |-> callbacks[t]],
         ev |-> p.ev, err |-> p.err, ret |-> None]

\* Variant: data is dispatched only while a connection is established.
Transport_callback_WhenConnected(topic, payload, order) ==
    LET p == Pipeline(order, payload)
    IN  IF link = "connected"
        THEN [cbs |-> Lookup(callbacks, topic).cbs, ev |-> p.ev, err |-> p.err, ret |-> None]
        ELSE [cbs |-> callbacks, ev |-> <<>>, err |-> None, ret |-> None]

\* Transport.callback; order is the iteration order of the topic's set
Transport_callback(topic, payload, order) ==
    LET p == Pipeline(order, payload)
    IN  [cbs |-> Lookup(callbacks, topic).cbs, ev |-> p.ev, err |-> p.err, ret |-> None]

\* Transport.callback when the callback invoked k-th calls
\* self.subscribe(topic2, cnew) on the transport before it returns.  The
\* subscription is a complete call of Transport.subscribe; an error of it is
\* not caught by the callback.  `for cb in s` iterates the topic's own set
\* object: when the subscription has added an element to that set, the next
\* step of the iteration raises RuntimeError (Set changed size during
\* iteration), whether or not a callback was left to invoke.
Transport_callback_Subscribing(topic, payload, order, k, topic2, cnew, drv, lorder) ==
    LET p     == Pipeline(order, payload)
        s     == Transport_subscribe(topic2, cnew, drv, lorder)
        grown == topic2 = topic /\ cnew \notin Elems(Lookup(callbacks, topic).set)
        head  == SubSeq(p.ev, 1, k - 1)
        kth   == <<"cb", order[k], Feed(order, k - 1, payload),
                   IF s.err # None THEN "raise" ELSE Feed(order, k, payload)>>
    IN  IF Len(p.ev) < k
        THEN [cbs |-> callbacks, ev |-> p.ev, err |-> p.err, ret |-> None]
        ELSE IF s.err # None
        THEN [cbs |-> s.cbs, ev |-> head \o s.ev \o <<kth>>, err |-> s.err, ret |-> None]
        ELSE IF order[k] \in raising
        THEN [cbs |-> s.cbs, ev |-> head \o s.ev \o <<p.ev[k]>>, err |-> p.err, ret |-> None]
        ELSE IF grown
        THEN [cbs |-> s.cbs, ev |-> head \o s.ev \o <<kth>>, err |-> "RuntimeError", ret |-> None]
        ELSE [cbs |-> s.cbs, ev |-> head \o s.ev \o SubSeq(p.ev, k, Len(p.ev)),
              err |-> p.err, ret |-> None]

\* RestTransport.poll: Transport.poll(self) on the abstract class method
\* fails with TypeError; MqttTransport.poll pumps the client loop.
poll ==
    IF kind = "rest" THEN [ev |-> <<>>, err |-> "TypeError"]
                     ELSE [ev |-> << <<"driver", "poll", None, None>> >>, err |-> None]


(***************************************************************************)
(* GVProtocol_v1: each operation resolves its topic, builds the payload and *)
(* calls Transport.send(topic, payload).                                    *)
(***************************************************************************)
\* '{"nm":"%s","ip":"%s","prt":"%d"}' % (name, ip, port)
DevicePayload(d) ==
    "{\"nm\":\"" \o d.name \o "\",\"ip\":\"" \o d.ip \o "\",\"prt\":\"" \o ToString(d.port) \o "\"}"

\* '{"nm":"%s","tp":"%s"}' % (name, type_)
ItemPayload(name, type_) ==
    "{\"nm\":\"" \o name \o "\",\"tp\":\"" \o type_ \o "\"}"

\* '{value:"%s"}' % (str(val))
DataPayload(val) == "{value:\"" \o val \o "\"}"

Protocol_add_device(drv) ==
    send(<<SERVICES("devices", DeviceInfo.id, None), DevicePayload(DeviceInfo)>>, drv)

\* payload = '{"status": "%s"}' % (istatus): the name istatus is not defined,
\* so the first statement raises NameError and nothing is sent.
Protocol_send_status(status, drv) ==
    [ev |-> <<>>, err |-> "NameError"]

\* Variant: the protocol remembers the kind of resource registered before
\* and files a sensor under the actuators once an actuator has been added.
Protocol_add_sensor_Sticky(id_, name, type_, drv) ==
    send(<<SERVICES(IF actuated = {} THEN "sensors" ELSE "actuators", DeviceInfo.id, id_),
           ItemPayload(name, type_)>>, drv)

Protocol_add_sensor(id_, name, type_, drv) ==
    send(<<SERVICES("sensors", DeviceInfo.id, id_), ItemPayload(name, type_)>>, drv)

Protocol_add_actuator(id_, name, type_, drv) ==
    send(<<SERVICES("actuators", DeviceInfo.id, id_), ItemPayload(name, type_)>>, drv)

\* def send_data(self, id_, val): args are the positional arguments of the call
Protocol_send_data(args, drv) ==
    IF Len(args) # 2
    THEN [ev |-> <<>>, err |-> "TypeError"]
    ELSE send(<<SERVICES("data", DeviceInfo.id, args[1]), DataPayload(args[2])>>, drv)

(***************************************************************************)
(* GVComm.  sub tells whether Transport.subscribe was entered and returned. *)
(***************************************************************************)
\* GVComm.add_callback: self.__transport.subscribe(topic, cb)
GVComm_add_callback(topic, cb, subDrv, order) ==
    Transport_subscribe(topic, cb, subDrv, order)

\* Variant: the callback is subscribed to the device registration topic.
GVComm_add_device_WrongTopic(callback, sendDrv, subDrv, order) ==
    LET p     == Protocol_add_device(sendDrv)
        topic == SERVICES("devices", DeviceInfo.id, None)
        s     == GVComm_add_callback(topic, callback, subDrv, order)
    IN  IF p.err # None
        THEN [cbs |-> callbacks, ev |-> p.ev, err |-> p.err, sub |-> FALSE]
        ELSE IF callback = None
        THEN [cbs |-> callbacks, ev |-> p.ev, err |-> None, sub |-> FALSE]
        ELSE [cbs |-> s.cbs, ev |-> p.ev \o s.ev, err |-> s.err, sub |-> s.err = None]

GVComm_add_device(callback, sendDrv, subDrv, order) ==
    LET p     == Protocol_add_device(sendDrv)
        topic == SERVICES("devices_input", DeviceInfo.id, None)
        s     == GVComm_add_callback(topic, callback, subDrv, order)
    IN  IF p.err # None
        THEN [cbs |-> callbacks, ev |-> p.ev, err |-> p.err, sub |-> FALSE]
        ELSE IF callback = None
        THEN [cbs |-> callbacks, ev |-> p.ev, err |-> None, sub |-> FALSE]
        ELSE [cbs |-> s.cbs, ev |-> p.ev \o s.ev, err |-> s.err, sub |-> s.err = None]

\* Variant: the callback is subscribed before the registration is sent.
GVComm_add_actuator_SubscribeFirst(id_, name, type_, callback, sendDrv, subDrv, order) ==
    LET topic == SERVICES("actuators_input", DeviceInfo.id, id_)
        s     == GVComm_add_callback(topic, callback, subDrv, order)
        p     == Protocol_add_actuator(id_, name, type_, sendDrv)
    IN  IF s.err # None
        THEN [cbs |-> s.cbs, ev |-> s.ev, err |-> s.err, sub |-> FALSE]
        ELSE [cbs |-> s.cbs, ev |-> s.ev \o p.ev, err |-> p.err, sub |-> TRUE]

GVComm_add_actuator(id_, name, type_, callback, sendDrv, subDrv, order) ==
    LET topic == SERVICES("actuators_input", DeviceInfo.id, id_)
        p     == Protocol_add_actuator(id_, name, type_, sendDrv)
        s     == GVComm_add_callback(topic, callback, subDrv, order)
    IN  IF p.err # None
        THEN [cbs |-> callbacks, ev |-> p.ev, err |-> p.err, sub |-> FALSE]
        ELSE [cbs |-> s.cbs, ev |-> p.ev \o s.ev, err |-> s.err, sub |-> s.err = None]

GVComm_send_status(status, drv) == Protocol_send_status(status, drv)

GVComm_add_sensor(id_, name, type_, drv) == Protocol_add_sensor(id_, name, type_, drv)

\* self.__protocol.send_data(id_, value, qos, retain)
GVComm_send_data(id_, value, qos, retain, drv) ==
    Protocol_send_data(<<id_, value, qos, retain>>, drv)

(***************************************************************************)
(* The state machine.                                                       *)
(***************************************************************************)
NoSub == <<None, None, 0>>

\* Transport.__init__ and RestTransport.__init__ (which builds the HTTP
\* client object only): no call of the driver's connection mechanics.
Transport_init == [ev |-> <<>>, link |-> "new"]
Rest_init == [ev |-> <<>>, link |-> "new"]

\* MqttTransport.__init__: client.connect(server, port, bind_address=...) is
\* called by the constructor.  When it raises, the constructor raises and
\* there is no transport object; the objects modelled are those for which it
\* returned.
Mqtt_init == [ev |-> << <<"driver", "client.connect", None, None>> >>, link |-> "connected"]

__init__(k) ==
    CASE k = "rest" -> Rest_init
      [] k = "mqtt" -> Mqtt_init
      [] OTHER      -> Transport_init

\* The state after construction: empty registries, callbacks that return.
Init ==
    /\ kind \in Kinds
    /\ callbacks = [t \in {} |-> EmptySet(Callbacks)]
    /\ listeners = EmptySet(Listeners)
    /\ raising = {}
    /\ lastSub = NoSub
    /\ addCount = [l \in Listeners |-> 0]
    /\ actuated = {}
    /\ call = <<"__init__">>
    /\ events = __init__(kind).ev
    /\ link = __init__(kind).link
    /\ result = OK
    /\ returned = None

Bump(n) == IF n < MaxRepeat THEN n + 1 ELSE n

\* lastSub after a subscribe call for (topic, cb) that ended with err
Subscribed(topic, cb, err) ==
    IF err # None THEN lastSub
    ELSE IF lastSub[1] = topic /\ lastSub[2] = cb THEN <<topic, cb, Bump(lastSub[3])>>
    ELSE <<topic, cb, 1>>

Observe(c, ev, err, ret) ==
    /\ call' = c
    /\ events' = ev
    /\ result' = (IF err = None THEN OK ELSE err)
    /\ returned' = ret

\* Transport.connect()
Connect ==
    \E drv \in {None} \cup ConnectErrors, order \in Orders(listeners) :
        LET r == Transport_connect(drv, order)
        IN  /\ Observe(<<"connect">>, r.ev, r.err, None)
            /\ link' = (IF drv = None THEN "connected" ELSE "failed")
            /\ UNCHANGED <<kind, callbacks, listeners, raising, lastSub, addCount, actuated>>

\* Transport.subscribe(topic, callback), for topic in T and callback in C
SubscribeIn(T, C) ==
    \E topic \in T, cb \in C,
       drv \in {None, SubscribeError}, order \in Orders(listeners) :
        LET r == Transport_subscribe(topic, cb, drv, order)
        IN  /\ Observe(<<"subscribe", topic, cb>>, r.ev, r.err, None)
            /\ callbacks' = r.cbs
            /\ lastSub' = Subscribed(topic, cb, r.err)
            /\ UNCHANGED <<kind, link, listeners, raising, addCount, actuated>>

Subscribe == SubscribeIn(InboxTopics, Callbacks)

\* Transport.shutdown()
Shutdown ==
    \E order \in Orders(listeners) :
        LET r == shutdown(order)
        IN  /\ Observe(<<"shutdown">>, r.ev, r.err, None)
            /\ link' = (IF \E i \in 1..Len(r.ev) : r.ev[i][1] = "driver" THEN "down" ELSE link)
            /\ UNCHANGED <<kind, callbacks, listeners, raising, lastSub, addCount, actuated>>

\* Transport.callback(topic, payload), called by the driver
Callback ==
    \E topic \in DeliveryTopics, payload \in Payloads :
        \E order \in Orders(Lookup(callbacks, topic).set) :
            LET r == Transport_callback(topic, payload, order)
            IN  /\ Observe(<<"callback", topic, payload>>, r.ev, r.err, r.ret)
                /\ callbacks' = r.cbs
                /\ UNCHANGED <<kind, link, listeners, raising, lastSub, addCount, actuated>>

\* Transport.callback(topic, payload), called by the driver, with a callback of
\* the topic that subscribes callback cnew to topic2 while it runs
CallbackSubscribing ==
    \E topic \in InboxTopics, payload \in Payloads, topic2 \in InboxTopics,
       cnew \in Callbacks, drv \in {None, SubscribeError} :
        \E order \in Orders(Lookup(callbacks, topic).set), lorder \in Orders(listeners) :
            \E k \in 1..Len(order) :
                LET r == Transport_callback_Subscribing(topic, payload, order, k,
                                                        topic2, cnew, drv, lorder)
                IN  /\ Observe(<<"callback/subscribe", topic, payload, topic2, cnew>>,
                               r.ev, r.err, r.ret)
                    /\ callbacks' = r.cbs
                    /\ UNCHANGED <<kind, link, listeners, raising, lastSub, addCount, actuated>>

\* self.__listeners.add(listener)
Transport_add_listener(lst, listener) == SetAdd(lst, listener)

\* Variant: removal of a listener that is not held is a no-op (set.discard).
Transport_remove_listener_Discard(lst, listener) ==
    [lst |-> IF listener \in Elems(lst) THEN SetRemove(lst, listener) ELSE lst,
     err |-> None]

\* self.__listeners.remove(listener): KeyError when the listener is not held
Transport_remove_listener(lst, listener) ==
    IF listener \in Elems(lst)
    THEN [lst |-> SetRemove(lst, listener), err |-> None]
    ELSE [lst |-> lst, err |-> "KeyError"]

\* Transport.add_listener(listener), for listener in LS
AddListenerIn(LS) ==
    \E l \in LS :
        /\ listeners' = Transport_add_listener(listeners, l)
        /\ addCount' = [addCount EXCEPT ![l] = Bump(@)]
        /\ Observe(<<"add_listener", l>>, <<>>, None, None)
        /\ UNCHANGED <<kind, link, callbacks, raising, lastSub, actuated>>

AddListener == AddListenerIn(Listeners)

\* Transport.remove_listener(listener), for listener in LS
RemoveListenerIn(LS) ==
    \E l \in LS :
        LET r == Transport_remove_listener(listeners, l)
        IN  /\ listeners' = r.lst
            /\ addCount' = IF r.err = None THEN [addCount EXCEPT ![l] = 0] ELSE addCount
            /\ Observe(<<"remove_listener", l>>, <<>>, r.err, None)
            /\ UNCHANGED <<kind, link, callbacks, raising, lastSub, actuated>>

RemoveListener == RemoveListenerIn(Listeners)

\* Transport.poll()
Poll ==
    /\ Observe(<<"poll">>, poll.ev, poll.err, None)
    /\ UNCHANGED <<kind, link, callbacks, listeners, raising, lastSub, addCount, actuated>>

\* Transport.send(service, payload) and Transport.send(service, payload, qos, retain),
\* called by the application
Send ==
    \E service \in {SERVICES("status", DeviceInfo.id, None)}, payload \in Payloads,
       rest \in {<<>>, <<1, TRUE>>},
       drv \in {None, SendError} :
        LET r == send(<<service, payload>> \o rest, drv)
        IN  /\ Observe(<<"send", service, payload>> \o rest, r.ev, r.err, None)
            /\ UNCHANGED <<kind, link, callbacks, listeners, raising, lastSub, addCount, actuated>>

\* GVComm.connect(), GVComm.shutdown(), GVComm.poll(): self.__transport.<same>()
GVConnect ==
    \E drv \in {None} \cup ConnectErrors, order \in Orders(listeners) :
        LET r == Transport_connect(drv, order)
        IN  /\ Observe(<<"GVComm.connect">>, r.ev, r.err, None)
            /\ link' = (IF drv = None THEN "connected" ELSE "failed")
            /\ UNCHANGED <<kind, callbacks, listeners, raising, lastSub, addCount, actuated>>

GVShutdown ==
    \E order \in Orders(listeners) :
        LET r == shutdown(order)
        IN  /\ Observe(<<"GVComm.shutdown">>, r.ev, r.err, None)
            /\ link' = (IF \E i \in 1..Len(r.ev) : r.ev[i][1] = "driver" THEN "down" ELSE link)
            /\ UNCHANGED <<kind, callbacks, listeners, raising, lastSub, addCount, actuated>>

GVPoll ==
    /\ Observe(<<"GVComm.poll">>, poll.ev, poll.err, None)
    /\ UNCHANGED <<kind, link, callbacks, listeners, raising, lastSub, addCount, actuated>>

\* GVComm.add_callback(topic, cb)
AddCallback ==
    \E topic \in InboxTopics, cb \in Callbacks,
       drv \in {None, SubscribeError}, order \in Orders(listeners) :
        LET r == GVComm_add_callback(topic, cb, drv, order)
        IN  /\ Observe(<<"add_callback", topic, cb>>, r.ev, r.err, None)
            /\ callbacks' = r.cbs
            /\ UNCHANGED <<kind, link, listeners, raising, lastSub, addCount, actuated>>

\* GVComm.add_device(callback=None)
AddDevice ==
    \E cb \in Callbacks \cup {None}, sendDrv \in {None, SendError},
       subDrv \in {None, SubscribeError}, order \in Orders(listeners) :
        LET r == GVComm_add_device(cb, sendDrv, subDrv, order)
            topic == SERVICES("devices_input", DeviceInfo.id, None)
        IN  /\ Observe(<<"add_device", cb>>, r.ev, r.err, None)
            /\ callbacks' = r.cbs
            /\ UNCHANGED <<kind, link, listeners, raising, lastSub, addCount, actuated>>

\* GVComm.add_actuator(id_, name, type_, callback)
AddActuator ==
    \E id_ \in ActuatorIds, cb \in Callbacks, sendDrv \in {None, SendError},
       subDrv \in {None, SubscribeError}, order \in Orders(listeners) :
        LET r == GVComm_add_actuator(id_, "Lamp", "switch", cb, sendDrv, subDrv, order)
            topic == SERVICES("actuators_input", DeviceInfo.id, id_)
        IN  /\ Observe(<<"add_actuator", id_, cb>>, r.ev, r.err, None)
            /\ callbacks' = r.cbs
            /\ actuated' = IF sendDrv = None THEN actuated \cup {<<id_, cb>>} ELSE actuated
            /\ UNCHANGED <<kind, link, listeners, raising, lastSub, addCount>>

\* GVComm.add_sensor(id_, name, type_)
AddSensor ==
    \E id_ \in SensorIds, drv \in {None, SendError} :
        LET r == GVComm_add_sensor(id_, "Thermo", "temp", drv)
        IN  /\ Observe(<<"add_sensor", id_>>, r.ev, r.err, None)
            /\ UNCHANGED <<kind, link, callbacks, listeners, raising, lastSub, addCount, actuated>>

\* GVComm.send_status(status)
SendStatus ==
    \E status \in Statuses, drv \in {None, SendError} :
        LET r == GVComm_send_status(status, drv)
        IN  /\ Observe(<<"send_status", status>>, r.ev, r.err, None)
            /\ UNCHANGED <<kind, link, callbacks, listeners, raising, lastSub, addCount, actuated>>

\* GVComm.send_data(id_, value, qos, retain)
SendData ==
    \E id_ \in SensorIds, value \in Readings, qos \in QosValues, retain \in BOOLEAN,
       drv \in {None, SendError} :
        LET r == GVComm_send_data(id_, value, qos, retain, drv)
        IN  /\ Observe(<<"send_data", id_, value, qos, retain>>, r.ev, r.err, None)
            /\ UNCHANGED <<kind, link, callbacks, listeners, raising, lastSub, addCount, actuated>>

(***************************************************************************)
(* Specifications.                                                          *)
(*   Spec          : every operation of Transport and of GVComm.            *)
(*   SpecLifecycle : the listener registry and the lifecycle notifications. *)
(*   SpecDispatch  : the subscription registry and the dispatch of data.    *)
(*   SpecFacade    : the operations of GVComm, and deliveries by the driver.*)
(*   SpecHandlers  : SpecLifecycle with listener classes that override the  *)
(*                   TransportListener methods.                             *)
(*   SpecTransport : subscription, polling and dispatch, with callbacks     *)
(*                   that subscribe during a dispatch.                      *)
(*   SpecConnection: dispatch before, between and after connect() and       *)
(*                   shutdown().                                            *)
(*   SpecFrame     : the forwarding operations of GVComm together with the  *)
(*                   operations on the two registries.                      *)
(* SpecDispatch and SpecFacade start with at most one listener added.       *)
(***************************************************************************)
OneListener == CHOOSE l \in Listeners : TRUE
OneTopic    == SERVICES("devices_input", DeviceInfo.id, None)
OneCallback == CHOOSE c \in Callbacks : TRUE

InitListening ==
    /\ kind \in Kinds
    /\ callbacks = [t \in {} |-> EmptySet(Callbacks)]
    /\ \E n \in {0, 1} :
        /\ listeners = [l \in Listeners |-> IF l = OneListener THEN n ELSE 0]
        /\ addCount = [l \in Listeners |-> IF l = OneListener THEN n ELSE 0]
    /\ raising = {}
    /\ lastSub = NoSub
    /\ actuated = {}
    /\ call = <<"__init__">>
    /\ events = __init__(kind).ev
    /\ link = __init__(kind).link
    /\ result = OK
    /\ returned = None

\* The state after construction when the application's listener classes
\* override the TransportListener methods, some of them with code that raises.
InitHandlers ==
    /\ kind \in Kinds
    /\ callbacks = [t \in {} |-> EmptySet(Callbacks)]
    /\ listeners = EmptySet(Listeners)
    /\ raising \in SUBSET Listeners
    /\ lastSub = NoSub
    /\ addCount = [l \in Listeners |-> 0]
    /\ actuated = {}
    /\ call = <<"__init__">>
    /\ events = __init__(kind).ev
    /\ link = __init__(kind).link
    /\ result = OK
    /\ returned = None

Next ==
    \/ Connect
    \/ Subscribe
    \/ Shutdown
    \/ Callback
    \/ CallbackSubscribing
    \/ AddListener
    \/ RemoveListener
    \/ Poll
    \/ Send
    \/ GVConnect
    \/ GVShutdown
    \/ GVPoll
    \/ AddCallback
    \/ AddDevice
    \/ AddActuator
    \/ AddSensor
    \/ SendStatus
    \/ SendData

NextLifecycle ==
    \/ Connect
    \/ Shutdown
    \/ SubscribeIn({OneTopic}, {OneCallback})
    \/ AddListener
    \/ RemoveListener

NextDispatch ==
    \/ Subscribe
    \/ Callback

NextFacade ==
    \/ AddCallback
    \/ AddDevice
    \/ AddActuator
    \/ AddSensor
    \/ SendStatus
    \/ SendData
    \/ Callback

NextTransport ==
    \/ Subscribe
    \/ Callback
    \/ CallbackSubscribing
    \/ Poll

NextConnection ==
    \/ Connect
    \/ Shutdown
    \/ SubscribeIn({OneTopic}, Callbacks)
    \/ Callback

NextFrame ==
    \/ GVConnect
    \/ GVShutdown
    \/ GVPoll
    \/ AddSensor
    \/ SendStatus
    \/ SendData
    \/ Send
    \/ Callback
    \/ SubscribeIn({OneTopic}, {OneCallback})
    \/ AddDevice
    \/ AddListenerIn({OneListener})
    \/ RemoveListenerIn({OneListener})

Spec == Init /\ [][Next]_vars
SpecLifecycle == Init /\ [][NextLifecycle]_vars
SpecDispatch == InitListening /\ [][NextDispatch]_vars
SpecFacade == InitListening /\ [][NextFacade]_vars
SpecHandlers == InitHandlers /\ [][NextLifecycle]_vars
SpecTransport == Init /\ [][NextTransport]_vars
SpecConnection == Init /\ [][NextConnection]_vars
SpecFrame == Init /\ [][NextFrame]_vars

(***************************************************************************)
(* Reading the observations.                                                *)
(***************************************************************************)
EventIdx == 1..Len(events)
IsNotify(i) == events[i][1] = "notify"
IsCb(i) == events[i][1] = "cb"
IsSend(i) == events[i][1] = "send"
IsTeardown(i) == events[i][1] = "driver" /\ events[i][2] = "teardown"

\* the notifications delivered to listener l by the last operation
NotifiedTo(l) == {i \in EventIdx : IsNotify(i) /\ events[i][3] = l}
\* the invocations of callback c by the last operation
InvokedOf(c) == {i \in EventIdx : IsCb(i) /\ events[i][2] = c}
\* the last operation was connect() and the driver's connect-mechanics raised
ConnectRaised ==
    /\ call[1] = "connect"
    /\ events[1][2] = "_handle_connect"
    /\ events[1][4] # None

C2_PipelineDispatch ==
    call[1] = "callback" =>
        /\ \A i \in EventIdx :
              /\ IsCb(i)
              /\ events[i][3] = (IF i = 1 THEN call[3] ELSE events[i - 1][4])
        /\ returned = None

C2_Witness ==
    /\ call[1] = "callback"
    /\ Len(events) >= 2
    /\ events[1][3] = call[3]
    /\ events[2][3] = events[1][4]
    /\ events[2][3] # call[3]

(***************************************************************************)
(* C3.  In every shutdown(), each registered listener is notified           *)
(* "before-disconnect" strictly before the driver's teardown is invoked.    *)
(***************************************************************************)
C3_NotifiedBeforeTeardown ==
    call[1] = "shutdown" =>
        \A j \in EventIdx : IsTeardown(j) =>
            \A l \in Elems(listeners) :
                \E i \in 1..(j - 1) :
                    /\ IsNotify(i)
                    /\ events[i][2] = "_before_disconnect"
                    /\ events[i][3] = l

(***************************************************************************)
(* C4.  After two or more subscribe calls of the same callback to the same  *)
(* topic have returned, the callback is registered once for the topic, and  *)
(* a delivery on the topic invokes it exactly once.                         *)
(***************************************************************************)
C4_SubscribeIdempotent ==
    lastSub[3] >= 2 =>
        /\ callbacks[lastSub[1]][lastSub[2]] = 1
        /\ (call[1] = "callback" /\ call[2] = lastSub[1])
              => Cardinality(InvokedOf(lastSub[2])) = 1

C4_Witness ==
    /\ lastSub[3] >= 2
    /\ call[1] = "callback"
    /\ call[2] = lastSub[1]
    /\ Cardinality(InvokedOf(lastSub[2])) = 1
    /\ Len(events) >= 2

(***************************************************************************)
(* C5.  Listener registration has set semantics: a listener added twice     *)
(* receives exactly one notification from each connect(), each subscribe()  *)
(* that returned and each shutdown(); a listener that is not registered     *)
(* (removed, or never added) receives none.                                 *)
(***************************************************************************)
LifecycleEvent ==
    \/ call[1] = "connect"
    \/ call[1] = "shutdown"
    \/ call[1] = "subscribe" /\ result = OK

C5_ListenerSetSemantics ==
    LifecycleEvent =>
        \A l \in Listeners :
            /\ addCount[l] >= 2 => Cardinality(NotifiedTo(l)) = 1
            /\ addCount[l] = 0 => Cardinality(NotifiedTo(l)) = 0

(***************************************************************************)
(* C6.  callback(topic, payload) for a topic that has no entry in the       *)
(* subscription registry returns normally, invokes no callback, notifies no *)
(* listener and leaves both registries as they were: no entry is created.   *)
(***************************************************************************)
C6_UnknownTopicNoOp ==
    [][ (call'[1] = "callback" /\ call'[2] \notin DOMAIN callbacks) =>
            /\ result' = OK
            /\ events' = <<>>
            /\ callbacks' = callbacks
            /\ listeners' = listeners ]_vars

C6_Witness ==
    /\ call[1] = "callback"
    /\ call[2] \notin DOMAIN callbacks
    /\ DOMAIN callbacks # {}
    /\ Elems(listeners) # {}
    /\ events = <<>>
    /\ result = OK

\* the calls of Transport.send in the event sequence ev, and whether one returned
SendsIn(ev) == {i \in 1..Len(ev) : ev[i][1] = "send"}
Delivered(e) == e[Len(e)] = None
\* the calls of the driver's subscription mechanics in ev
SubscriptionsIn(ev) ==
    {i \in 1..Len(ev) : ev[i][1] = "driver" /\ ev[i][2] = "_handle_subscription"}

C8_AddDevice ==
    [][ call'[1] = "add_device" =>
          LET input == "/devices/" \o DeviceInfo.id \o "/input"
              sends == SendsIn(events')
          IN  /\ Cardinality(sends) = 1
              /\ \A i \in sends : events'[i][2] = "/devices/" \o DeviceInfo.id
              /\ \A i \in sends, j \in SubscriptionsIn(events') : i < j
              /\ call'[2] = None =>
                    /\ callbacks' = callbacks
                    /\ SubscriptionsIn(events') = {}
              /\ (call'[2] # None /\ \A i \in sends : Delivered(events'[i])) =>
                    /\ DOMAIN callbacks' = DOMAIN callbacks \cup {input}
                    /\ callbacks'[input][call'[2]] = 1
                    /\ \A c \in Callbacks \ {call'[2]} :
                          callbacks'[input][c] =
                              (IF input \in DOMAIN callbacks THEN callbacks[input][c] ELSE 0)
                    /\ \A t \in DOMAIN callbacks \ {input} : callbacks'[t] = callbacks[t]
      ]_vars

C8_Witness ==
    /\ call[1] = "add_device"
    /\ call[2] # None
    /\ result = OK
    /\ Cardinality(SendsIn(events)) = 1
    /\ SubscriptionsIn(events) # {}
    /\ DOMAIN callbacks = {"/devices/" \o DeviceInfo.id \o "/input"}
    /\ callbacks["/devices/" \o DeviceInfo.id \o "/input"][call[2]] = 1

(***************************************************************************)
(* C9.  send_status(status) calls Transport.send exactly once, on           *)
(* /devices/D/status with a payload carrying the status, and returns        *)
(* normally when that send does.                                            *)
(***************************************************************************)
C9_SendStatusForwards ==
    call[1] = "send_status" =>
        /\ Cardinality(SendsIn(events)) = 1
        /\ \A i \in SendsIn(events) :
              /\ events[i][2] = "/devices/" \o DeviceInfo.id \o "/status"
              /\ events[i][3] = "{\"status\": \"" \o call[2] \o "\"}"
              /\ Delivered(events[i]) => result = OK

(***************************************************************************)
(* C10.  send_data(id, value, qos, retain) calls Transport.send exactly     *)
(* once, on /devices/D/sensors/id/output, and the send receives the         *)
(* caller's qos and retain.                                                 *)
(***************************************************************************)
C10_SendDataForwards ==
    call[1] = "send_data" =>
        /\ Cardinality(SendsIn(events)) = 1
        /\ \A i \in SendsIn(events) :
              /\ events[i][2] = "/devices/" \o DeviceInfo.id \o "/sensors/" \o call[2] \o "/output"
              /\ Len(events[i]) = 6
              /\ events[i][4] = call[4]
              /\ events[i][5] = call[5]
(***************************************************************************)
(* C11.  subscribe(topic, cb) invokes the driver's subscription mechanics   *)
(* once.  When the mechanics fails, its error reaches the caller and no     *)
(* listener is notified; every notification of the call is "subscribed",    *)
(* carries the transport and the topic, and comes after the mechanics has   *)
(* returned normally.                                                       *)
(***************************************************************************)
C11_SubscribeFailurePropagates ==
    call[1] = "subscribe" =>
        /\ Cardinality(SubscriptionsIn(events)) = 1
        /\ \A j \in SubscriptionsIn(events) :
              /\ events[j][4] # None =>
                    /\ result = events[j][4]
                    /\ \A i \in EventIdx : ~IsNotify(i)
              /\ \A i \in EventIdx : IsNotify(i) =>
                    /\ events[j][4] = None
                    /\ j < i
                    /\ events[i][2] = "_after_subscribe"
                    /\ events[i][4] = [transport |-> "self", topic |-> call[2],
                                       failure_reason |-> None]

C11_Witness ==
    /\ call[1] = "subscribe"
    /\ kind = "mqtt"
    /\ Cardinality(Elems(listeners)) >= 2
    /\ result = SubscribeError
    /\ \A i \in EventIdx : ~IsNotify(i)

\* event e is a call of the driver's connection mechanics
IsDriverConnect(e) == e[1] = "driver" /\ e[2] \in {"_handle_connect", "client.connect"}

(***************************************************************************)
(* C12.  The driver's connection mechanics is called by connect() only:     *)
(* the constructor of a transport, and every operation other than           *)
(* connect(), performs no call of it.                                       *)
(***************************************************************************)
C12_NoConnectAtConstruction ==
    call[1] \notin {"connect", "GVComm.connect"} =>
        \A i \in EventIdx : ~IsDriverConnect(events[i])

(***************************************************************************)
(* C13.  poll() and subscribe(topic, cb) of RestTransport fail to their     *)
(* caller with the "not implemented" error: TransportException with the     *)
(* code -1 of the NOT_IMPLEMENTED entry.                                    *)
(***************************************************************************)
C13_NotImplementedSignalled ==
    (kind = "rest" /\ call[1] \in {"poll", "subscribe"}) => result = NOT_IMPLEMENTED

(***************************************************************************)
(* C14.  A subscribe(T2, c) issued by a callback during callback(T, p), and *)
(* returning normally, does not make the dispatch fail, and c is registered *)
(* for T2 afterwards.                                                       *)
(***************************************************************************)
C14_MutationDuringDispatch ==
    (/\ call[1] = "callback/subscribe"
     /\ \E j \in SubscriptionsIn(events) : events[j][4] = None)
        => /\ result = OK
           /\ call[4] \in DOMAIN callbacks
           /\ callbacks[call[4]][call[5]] = 1

\* the notifications of the last operation
Notifications == {i \in EventIdx : IsNotify(i)}
\* listener l is registered and its class overrides the listener methods with
\* code that raises
RaisingRegistered(l) == l \in raising /\ l \in Elems(listeners)

(***************************************************************************)
(* C15.  In one connect(): a "connected" notification is delivered only if  *)
(* the driver's connect-mechanics returned, a "connection failed" one only  *)
(* if it raised, then with the driver's error as failure_reason; so no      *)
(* listener gets both kinds.  This holds whatever the listener classes      *)
(* define as handlers.                                                      *)
(***************************************************************************)
C15_ConnectKindsExclusive ==
    call[1] = "connect" =>
        /\ IsDriverConnect(events[1])
        /\ \A i \in Notifications :
              \/ /\ events[i][2] = "_after_connect"
                 /\ events[1][4] = None
              \/ /\ events[i][2] = "_after_connection_unsuccessful"
                 /\ events[1][4] # None
                 /\ events[i][4].failure_reason = events[1][4]
        /\ \A i, j \in Notifications :
              events[i][3] = events[j][3] => events[i][2] = events[j][2]

C15_Witness ==
    /\ call[1] = "connect"
    /\ events[1][4] = None
    /\ \E l \in Listeners : RaisingRegistered(l)
    /\ Cardinality(Elems(listeners)) >= 2
    /\ \A l \in Elems(listeners) :
          \E i \in NotifiedTo(l) : events[i][2] = "_after_connect"

(***************************************************************************)
(* C16.  Every shutdown() invokes the driver's teardown exactly once:       *)
(* whether the connection was never asked for, established, failed or       *)
(* already torn down, and whatever listeners are registered and whatever    *)
(* their classes define as "before-disconnect" handler.                     *)
(***************************************************************************)
C16_TeardownOnce ==
    call[1] = "shutdown" => Cardinality({i \in EventIdx : IsTeardown(i)}) = 1

C16_Witness ==
    /\ call[1] = "shutdown"
    /\ kind # "mqtt"
    /\ \E l \in Listeners : RaisingRegistered(l) /\ NotifiedTo(l) # {}
    /\ Cardinality({i \in EventIdx : IsTeardown(i)}) = 1
    /\ result = OK

(***************************************************************************)
(* C17.  Every listener registered when connect(), a subscribe() that       *)
(* returns, or shutdown() is executed receives a notification of that       *)
(* event.                                                                   *)
(***************************************************************************)
C17_EveryListenerNotified ==
    LifecycleEvent => \A l \in Elems(listeners) : NotifiedTo(l) # {}

(***************************************************************************)
(* C19.  Every Info delivered carries the emitting transport; "connected"   *)
(* and "before-disconnect" carry neither topic nor failure_reason,          *)
(* "connection failed" carries a failure_reason and no topic, "subscribed"  *)
(* carries the subscribed topic and no failure_reason.                      *)
(***************************************************************************)
C19_InfoFields ==
    \A i \in Notifications :
        LET info == events[i][4]
            m    == events[i][2]
        IN  /\ info.transport = "self"
            /\ m \in {"_after_connect", "_before_disconnect"} =>
                  info.topic = None /\ info.failure_reason = None
            /\ m = "_after_connection_unsuccessful" =>
                  info.topic = None /\ info.failure_reason \in ConnectErrors
            /\ m = "_after_subscribe" =>
                  /\ call[1] = "subscribe"
                  /\ info.topic = call[2]
                  /\ info.failure_reason = None
            /\ m \in {"_after_connect", "_before_disconnect",
                       "_after_connection_unsuccessful", "_after_subscribe"}

C19_Witness ==
    /\ call[1] = "connect"
    /\ Cardinality(Notifications) >= 2
    /\ \A i \in Notifications :
          /\ events[i][2] = "_after_connection_unsuccessful"
          /\ events[i][4].failure_reason = "Timeout"
          /\ events[i][4].topic = None

(***************************************************************************)
(* C18.  callback(topic, payload) invokes every callback registered for     *)
(* the topic, whatever the connection mechanics did before: nothing yet, a  *)
(* connection, a failed connection or a teardown.                           *)
(***************************************************************************)
C18_DispatchAnyTime ==
    (call[1] = "callback" /\ link \in {"new", "connected", "failed", "down"}) =>
        \A c \in Callbacks :
            (call[2] \in DOMAIN callbacks /\ callbacks[call[2]][c] > 0) => InvokedOf(c) # {}

C18_Witness ==
    /\ call[1] = "callback"
    /\ link = "failed"
    /\ call[2] \in DOMAIN callbacks
    /\ Cardinality(Elems(callbacks[call[2]])) >= 2
    /\ \A c \in Elems(callbacks[call[2]]) : InvokedOf(c) # {}

(***************************************************************************)
(* C20.  The subscription registry is changed only by subscribe, called     *)
(* directly or through add_callback, add_actuator or add_device with a      *)
(* callback; the listener registry only by add_listener and                 *)
(* remove_listener.  add_sensor, send_data, send_status, connect, shutdown, *)
(* poll, send and callback leave both registries as they were.              *)
(***************************************************************************)
C20_RegistryFrame ==
    [][ /\ call'[1] \in {"add_sensor", "send_data", "send_status", "send", "callback",
                         "connect", "shutdown", "poll",
                         "GVComm.connect", "GVComm.shutdown", "GVComm.poll"}
              => callbacks' = callbacks /\ listeners' = listeners
        /\ callbacks' # callbacks =>
              \/ call'[1] \in {"subscribe", "add_callback", "add_actuator"}
              \/ call'[1] = "add_device" /\ call'[2] # None
        /\ listeners' # listeners => call'[1] \in {"add_listener", "remove_listener"}
      ]_vars

C20_Witness ==
    /\ call[1] = "GVComm.connect"
    /\ link = "connected"
    /\ OneTopic \in DOMAIN callbacks
    /\ Cardinality(Elems(callbacks[OneTopic])) >= 2
    /\ Elems(listeners) # {}
    /\ \A l \in Elems(listeners) : NotifiedTo(l) # {}

(***************************************************************************)
(* C21.  add_device, add_sensor(id, ..) and add_actuator(id, ..) each call  *)
(* Transport.send once, with the topic of the template table               *)
(* (/devices/D, /devices/D/sensors/id, /devices/D/actuators/id) and a       *)
(* payload made of the device info or of the call's arguments only,         *)
(* whatever was called before.                                              *)
(***************************************************************************)
C21_ProtocolHistoryIndependent ==
    call[1] \in {"add_device", "add_sensor", "add_actuator"} =>
        /\ Cardinality(SendsIn(events)) = 1
        /\ \A i \in SendsIn(events) :
              /\ call[1] = "add_device" =>
                    /\ events[i][2] = "/devices/dev1"
                    /\ events[i][3] = "{\"nm\":\"n\",\"ip\":\"10.0.0.5\",\"prt\":\"1000\"}"
              /\ call[1] = "add_sensor" =>
                    /\ events[i][2] = "/devices/dev1/sensors/" \o call[2]
                    /\ events[i][3] = "{\"nm\":\"Thermo\",\"tp\":\"temp\"}"
              /\ call[1] = "add_actuator" =>
                    /\ events[i][2] = "/devices/dev1/actuators/" \o call[2]
                    /\ events[i][3] = "{\"nm\":\"Lamp\",\"tp\":\"switch\"}"

C21_Witness ==
    /\ call[1] = "add_sensor"
    /\ actuated # {}
    /\ "/devices/dev1/input" \in DOMAIN callbacks
    /\ \E i \in SendsIn(events) : events[i][2] = "/devices/dev1/sensors/s1"

\* callback c is registered for topic t in registry cbs
Registered(cbs, t, c) == t \in DOMAIN cbs /\ cbs[t][c] > 0

(***************************************************************************)
(* C22.  A subscribe(topic, cb) whose driver mechanics fails hands the      *)
(* error to the caller, notifies no listener and leaves cb registered for   *)
(* the topic; no operation removes a registration, and every callback() on  *)
(* a topic invokes all the callbacks registered for it, the ones of failed  *)
(* subscriptions included.                                                  *)
(***************************************************************************)
C22_NoRollback ==
    [][ /\ (call'[1] = "subscribe" /\ result' # OK) =>
              /\ \E j \in SubscriptionsIn(events') : result' = events'[j][4]
              /\ \A i \in 1..Len(events') : events'[i][1] # "notify"
              /\ Registered(callbacks', call'[2], call'[3])
        /\ \A t \in DOMAIN callbacks, c \in Callbacks :
              Registered(callbacks, t, c) => Registered(callbacks', t, c)
        /\ call'[1] = "callback" =>
              \A c \in Callbacks :
                  Registered(callbacks', call'[2], c) =>
                      \E i \in 1..Len(events') : events'[i][1] = "cb" /\ events'[i][2] = c
      ]_vars

\* On RestTransport every subscribe fails, so the callbacks invoked here are
\* those of failed subscriptions.
C22_Witness ==
    /\ kind = "rest"
    /\ call[1] = "callback"
    /\ Elems(listeners) # {}
    /\ call[2] \in DOMAIN callbacks
    /\ Cardinality(Elems(callbacks[call[2]])) >= 2
    /\ \A c \in Elems(callbacks[call[2]]) : InvokedOf(c) # {}

(***************************************************************************)
(* Callbacks that raise.  Transport.callback calls each callback directly  *)
(* (payload = cb(payload)) with no try/except around the loop, and         *)
(* MqttTransport.__on_message calls self.callback with none either.        *)
(***************************************************************************)

\* The state after construction when some of the application's callbacks
\* raise whenever they are invoked.
InitFaulty ==
    /\ kind \in Kinds
    /\ callbacks = [t \in {} |-> EmptySet(Callbacks)]
    /\ listeners = EmptySet(Listeners)
    /\ raising \in SUBSET Callbacks
    /\ lastSub = NoSub
    /\ addCount = [l \in Listeners |-> 0]
    /\ actuated = {}
    /\ call = <<"__init__">>
    /\ events = __init__(kind).ev
    /\ link = __init__(kind).link
    /\ result = OK
    /\ returned = None

SpecFaulty == InitFaulty /\ [][NextDispatch]_vars

\* The callbacks registered for topic t in registry cbs.
RegisteredFor(cbs, t) == {c \in Callbacks : Registered(cbs, t, c)}

\* C23: a delivery never changes the subscription registry; when a callback
\* of the topic raises, callback() ends with that error, the raising callback
\* is the last one invoked (every registered callback not invoked before it
\* is skipped) and no callback is invoked twice; when none raises, callback()
\* returns normally and every registered callback has been invoked.  The
\* registry being what it was, the next delivery iterates the same callbacks.
C23_CallbackErrorPropagates ==
    [][ call'[1] = "callback" =>
          /\ callbacks' = callbacks
          /\ \A i \in 1..Len(events') :
                /\ events'[i][1] = "cb"
                /\ Registered(callbacks, call'[2], events'[i][2])
                /\ \A j \in 1..Len(events') : events'[j][2] = events'[i][2] => j = i
                /\ (events'[i][2] \in raising) <=> (events'[i][4] = "raise")
                /\ events'[i][2] \in raising => i = Len(events')
          /\ (\E i \in 1..Len(events') : events'[i][2] \in raising)
                => result' = "CallbackError"
          /\ (\A i \in 1..Len(events') : events'[i][2] \notin raising)
                => /\ result' = OK
                   /\ \A c \in RegisteredFor(callbacks, call'[2]) :
                         \E i \in 1..Len(events') : events'[i][2] = c
      ]_vars

\* A delivery to a topic with two callbacks ended with the error of the
\* first one invoked; the other was skipped and both are still registered.
C23_Witness ==
    /\ call[1] = "callback"
    /\ result = "CallbackError"
    /\ Len(events) = 1
    /\ events[1][4] = "raise"
    /\ Cardinality(RegisteredFor(callbacks, call[2])) >= 2
    /\ \E c \in RegisteredFor(callbacks, call[2]) : c \notin raising

\* C24: remove_listener of a listener that is not registered ends with an
\* error (KeyError) and leaves the listener registry as it was, so a second
\* removal in a row fails; add_listener of a listener that is registered
\* returns normally and leaves the registry as it was.
C24_RemoveNotIdempotent ==
    [][ /\ (call'[1] = "remove_listener" /\ call'[2] \notin Elems(listeners)) =>
              /\ result' = "KeyError"
              /\ listeners' = listeners
        /\ (call'[1] = "remove_listener" /\ call = call' /\ result = OK) =>
              result' = "KeyError"
        /\ (call'[1] = "add_listener" /\ call'[2] \in Elems(listeners)) =>
              /\ result' = OK
              /\ listeners' = listeners
      ]_vars

\* A removal failed for a listener that is not registered while another
\* listener is, and that one stayed registered.
C24_Witness ==
    /\ call[1] = "remove_listener"
    /\ result = "KeyError"
    /\ call[2] \notin Elems(listeners)
    /\ Elems(listeners) # {}

\* C25: in add_actuator, and in add_device with a callback, every step of
\* the subscription (the driver's subscription mechanics, a notification)
\* comes after the registration send; when that send fails the call ends
\* with the send's error, the subscription registry is what it was, the
\* driver's subscription mechanics have not been called and no listener has
\* been notified.
C25_SendBeforeSubscribe ==
    [][ (call'[1] = "add_actuator" \/ (call'[1] = "add_device" /\ call'[2] # None)) =>
          /\ Cardinality(SendsIn(events')) = 1
          /\ \A i \in SendsIn(events') : \A j \in 1..Len(events') : j # i => i < j
          /\ \A i \in SendsIn(events') : ~Delivered(events'[i]) =>
                /\ result' = events'[i][Len(events'[i])]
                /\ result' # OK
                /\ callbacks' = callbacks
                /\ Len(events') = 1
          /\ \A i \in SendsIn(events') : Delivered(events'[i]) =>
                SubscriptionsIn(events') # {}
      ]_vars

\* add_actuator ended with the error of its send while a listener is
\* registered: the actuator's input topic has no callback.
C25_Witness ==
    /\ call[1] = "add_actuator"
    /\ result = SendError
    /\ Elems(listeners) # {}
    /\ Len(events) = 1
    /\ \A c \in Callbacks :
          ~Registered(callbacks, SERVICES("actuators_input", DeviceInfo.id, call[2]), c)
====
